---- MODULE Spec2Model ----
(***************************************************************************)
(* Model of the homework-status bot (homework.py, exceptions.py): the      *)
(* token check, the API fetch, the response validator, the verdict         *)
(* formatter, the notifier and the polling loop of main().                 *)
(*                                                                         *)
(* Conventions.                                                            *)
(*  - A Python dict is a TLA+ function whose DOMAIN is the dict's keys.    *)
(*  - A JSON value whose Python type the code inspects is tagged with its  *)
(*    type: [type |-> "list", items |-> <<...>>], [type |-> "dict"], ...   *)
(*  - A str built by an f-string or by str.join is the sequence of its     *)
(*    fragments (literal pieces and interpolated values, in order);        *)
(*    concatenation is \o and "s contains t" is "t is a fragment of s".    *)
(*  - A call either returns or raises: Return(v) / Raise(type, text).      *)
(*  - The Cyrillic string literals of the source are written in Latin      *)
(*    transliteration, one distinct string per distinct literal.           *)
(***************************************************************************)
EXTENDS Integers, Sequences, FiniteSets, TLC

(***************************************************************************)
(* Bounds of the model.                                                    *)
(***************************************************************************)
\* longest 'homeworks' list the API answers with
MaxHomeworks == 2
\* number of sleeps the reading of the clock is followed for
MaxTicks == 1

(***************************************************************************)
(* Program constants.                                                      *)
(***************************************************************************)
\* http.HTTPStatus.OK, compared with response.status_code
HTTP_OK == 200
\* ten_minutes_in_seconds = 10 * 60, the argument of time.sleep
ten_minutes_in_seconds == 600

HOMEWORK_VERDICTS ==
    [approved  |-> "Rabota proverena: revyueru vsyo ponravilos. Ura!",
     reviewing |-> "Rabota vzyata na proverku revyuerom.",
     rejected  |-> "Rabota proverena: u revyuera est zamechaniya."]

(***************************************************************************)
(* exceptions.py: the class hierarchy.  Bases[c] are the direct base       *)
(* classes of c; the built-in and library classes the code can raise are   *)
(* listed with their standard bases.                                       *)
(***************************************************************************)
Bases ==
    [ImproperlyConfigured |-> {"Exception"},
     BaseAPIError         |-> {"Exception"},
     ResponseTypeError    |-> {"BaseAPIError", "TypeError"},
     EmptyResponseError   |-> {"ValueError"},
     APIRequestError      |-> {"BaseAPIError"},
     TypeError            |-> {"Exception"},
     ValueError           |-> {"Exception"},
     NameError            |-> {"Exception"},
     UnboundLocalError    |-> {"NameError"},
     JSONDecodeError      |-> {"ValueError"},
     TelegramError        |-> {"Exception"},
     Exception            |-> {}]

RECURSIVE IsSubclass(_, _)
\* issubclass(c, d)
IsSubclass(c, d) ==
    \/ c = d
    \/ \E b \in Bases[c] : IsSubclass(b, d)

Return(v) == [raised |-> FALSE, value |-> v]
Raise(t, text) == [raised |-> TRUE, type |-> t, text |-> text]

(***************************************************************************)
(* Inputs: what the environment and the API can hand to the program.       *)
(***************************************************************************)
\* os.getenv(name): None when the variable is unset, else its string
EnvValues ==
    {[set |-> FALSE, str |-> ""], [set |-> TRUE, str |-> ""],
     [set |-> TRUE, str |-> "secret"]}

\* truth value of an os.getenv result: None and '' are false
Truthy(v) == v.set /\ v.str # ""

HomeworkNames == {"hw1", "hw2"}
\* every status of the table, and one that is not in it
ApiStatuses == (DOMAIN HOMEWORK_VERDICTS) \cup {"unknown"}
\* the statuses of the records the polled API answers with
PolledStatuses == {"approved", "rejected", "unknown"}

\* homework records: dicts with any subset of the two keys
RecordsOver(names, statuses) ==
    {[homework_name |-> n, status |-> s] : n \in names, s \in statuses}
    \cup {[homework_name |-> n] : n \in names}
    \cup {[status |-> s] : s \in statuses}
    \cup {<<>>}

\* the records parse_status is applied to on its own
HomeworkRecords == RecordsOver(HomeworkNames, ApiStatuses)

\* the records of a polled 'homeworks' list
PolledRecords == RecordsOver(HomeworkNames, PolledStatuses)

HomeworkLists == UNION {[1..n -> PolledRecords] : n \in 0..MaxHomeworks}

\* values the 'homeworks' key can carry: a list of records, or not a list
HomeworksValues ==
    {[type |-> "list", items |-> l] : l \in HomeworkLists}
    \cup {[type |-> "dict"], [type |-> "NoneType"]}

CurrentDates == {1000}

\* decoded JSON bodies: mappings with any subset of the two keys
Responses ==
    {[homeworks |-> h, current_date |-> d] : h \in HomeworksValues, d \in CurrentDates}
    \cup {[homeworks |-> h] : h \in HomeworksValues}
    \cup {[current_date |-> d] : d \in CurrentDates}
    \cup {<<>>}

\* what one call of requests.get can end in: a transport failure
\* (requests.RequestException), or a response with a status code and a body
\* that is either JSON for a mapping or not JSON at all
HttpStatuses == {HTTP_OK, 503}
HttpResults ==
    {[kind |-> "RequestException"]}
    \cup {[kind |-> "response", status_code |-> s, json |-> FALSE] : s \in HttpStatuses}
    \cup {[kind |-> "response", status_code |-> HTTP_OK, json |-> TRUE, body |-> r] :
             r \in Responses}
    \cup {[kind |-> "response", status_code |-> 503, json |-> TRUE, body |-> <<>>]}

\* what one call of bot.send_message can end in
BotResults ==
    {Return("None"), Raise("TelegramError", <<"Timed out">>)}

(***************************************************************************)
(* The functions of homework.py.                                           *)
(***************************************************************************)
\* check_tokens() with the chat identifier left out of the test
check_tokens_NoChatId(practicum, telegram, chat) ==
    IF ~(Truthy(practicum) /\ Truthy(telegram))
    THEN Raise("ImproperlyConfigured", <<"Required tokens are missing in .env file.">>)
    ELSE Return("None")

\* check_tokens(): raises unless all three values are truthy
check_tokens(practicum, telegram, chat) ==
    IF ~(Truthy(practicum) /\ Truthy(telegram) /\ Truthy(chat))
    THEN Raise("ImproperlyConfigured", <<"Required tokens are missing in .env file.">>)
    ELSE Return("None")

\* send_message() without its try statement: a failure of bot.send_message
\* leaves the function
send_message_Propagates(bot_result) ==
    IF bot_result.raised THEN bot_result ELSE Return("None")

\* send_message(bot, message), given what bot.send_message ends in: the
\* except clause of line 65 swallows every Exception
send_message(bot_result) ==
    IF bot_result.raised /\ ~IsSubclass(bot_result.type, "Exception")
    THEN bot_result
    ELSE Return("None")

\* the f-string of lines 80 and 83
StatusCodeText(code) == <<"API error. Status code: ", ToString(code)>>

\* get_api_answer(timestamp), given what requests.get ends in.  On a
\* RequestException the handler of line 80 reads response.status_code while
\* the local 'response' was never bound (the assignment of line 78 did not
\* complete): Python raises UnboundLocalError there, in place of the
\* APIRequestError being built.  response.json() raises JSONDecodeError on
\* a body that is not JSON, outside the try statement.
get_api_answer(http) ==
    IF http.kind = "RequestException"
    THEN Raise("UnboundLocalError",
               <<"local variable 'response' referenced before assignment">>)
    ELSE IF http.status_code # HTTP_OK
    THEN Raise("APIRequestError", StatusCodeText(http.status_code))
    ELSE IF ~http.json
    THEN Raise("JSONDecodeError", <<"Expecting value: line 1 column 1 (char 0)">>)
    ELSE Return(http.body)

WrongType == <<"API response is of wrong type.">>

\* check_response() with the emptiness test made before the 'current_date'
\* test
check_response_EmptyFirst(response) ==
    IF "homeworks" \notin DOMAIN response
    THEN Raise("ResponseTypeError", WrongType)
    ELSE IF response.homeworks.type # "list"
    THEN Raise("ResponseTypeError", WrongType)
    ELSE IF Len(response.homeworks.items) = 0
    THEN Raise("EmptyResponseError", <<"API response is empty.">>)
    ELSE IF "current_date" \notin DOMAIN response
    THEN Raise("ResponseTypeError", WrongType)
    ELSE IF "status" \notin DOMAIN response.homeworks.items[1]
    THEN Raise("ResponseTypeError", WrongType)
    ELSE IF "homework_name" \notin DOMAIN response.homeworks.items[1]
    THEN Raise("ResponseTypeError", WrongType)
    ELSE IF response.homeworks.items[1].status \notin DOMAIN HOMEWORK_VERDICTS
    THEN Raise("ResponseTypeError", WrongType)
    ELSE Return("None")

\* check_response(response)
check_response(response) ==
    IF "homeworks" \notin DOMAIN response
    THEN Raise("ResponseTypeError", WrongType)
    ELSE IF "current_date" \notin DOMAIN response
    THEN Raise("ResponseTypeError", WrongType)
    ELSE IF response.homeworks.type # "list"
    THEN Raise("ResponseTypeError", WrongType)
    ELSE IF Len(response.homeworks.items) = 0
    THEN Raise("EmptyResponseError", <<"API response is empty.">>)
    ELSE IF "status" \notin DOMAIN response.homeworks.items[1]
    THEN Raise("ResponseTypeError", WrongType)
    ELSE IF "homework_name" \notin DOMAIN response.homeworks.items[1]
    THEN Raise("ResponseTypeError", WrongType)
    ELSE IF response.homeworks.items[1].status \notin DOMAIN HOMEWORK_VERDICTS
    THEN Raise("ResponseTypeError", WrongType)
    ELSE Return("None")

\* parse_status() looking the verdict up with HOMEWORK_VERDICTS.get(status,
\* status): an unknown status is printed as it is
parse_status_GetDefault(homework) ==
    IF "homework_name" \notin DOMAIN homework
    THEN Raise("ResponseTypeError", WrongType)
    ELSE IF "status" \notin DOMAIN homework
    THEN Raise("ResponseTypeError", WrongType)
    ELSE Return(<<"Izmenilsya status proverki raboty \"", homework.homework_name,
                  "\". ",
                  IF homework.status \in DOMAIN HOMEWORK_VERDICTS
                  THEN HOMEWORK_VERDICTS[homework.status]
                  ELSE homework.status>>)

\* parse_status(homework): each of the three subscripts raises KeyError when
\* its key is missing, and the except clause turns it into ResponseTypeError
parse_status(homework) ==
    IF "homework_name" \notin DOMAIN homework
    THEN Raise("ResponseTypeError", WrongType)
    ELSE IF "status" \notin DOMAIN homework
    THEN Raise("ResponseTypeError", WrongType)
    ELSE IF homework.status \notin DOMAIN HOMEWORK_VERDICTS
    THEN Raise("ResponseTypeError", WrongType)
    ELSE Return(<<"Izmenilsya status proverki raboty \"", homework.homework_name,
                  "\". ", HOMEWORK_VERDICTS[homework.status]>>)

RECURSIVE JoinFrom_SkipBad(_, _)
\* the join over the records parse_status accepts, the others skipped
JoinFrom_SkipBad(homeworks, i) ==
    IF i > Len(homeworks) THEN Return(<<>>)
    ELSE LET head == parse_status(homeworks[i])
             rest == JoinFrom_SkipBad(homeworks, i + 1)
         IN  IF head.raised THEN rest
             ELSE IF rest.value = <<>> THEN head
             ELSE Return(head.value \o <<"\n">> \o rest.value)

RECURSIVE JoinFrom(_, _)
\* '\n'.join(parse_status(hw) for hw in homeworks), from record i on: the
\* generator is consumed in order and the first raise ends the join
JoinFrom(homeworks, i) ==
    IF i > Len(homeworks) THEN Return(<<>>)
    ELSE LET head == parse_status(homeworks[i])
         IN  IF head.raised THEN head
             ELSE IF i = Len(homeworks) THEN head
             ELSE LET rest == JoinFrom(homeworks, i + 1)
                  IN  IF rest.raised THEN rest
                      ELSE Return(head.value \o <<"\n">> \o rest.value)

\* the message built from the first record alone
JoinVerdicts_FirstOnly(homeworks) == parse_status(homeworks[1])

\* the message of lines 145-146
JoinVerdicts(homeworks) == JoinFrom(homeworks, 1)

\* the f-string of lines 154 and 162: str(error) is the exception's text
FailureText(text) == <<"Sboy v rabote programmy: ">> \o text

\* the except clauses without 'except EmptyResponseError'
ExceptClause_NoEmptyClause(t) ==
    IF IsSubclass(t, "BaseAPIError") THEN "BaseAPIError"
    ELSE IF IsSubclass(t, "Exception") THEN "Exception"
    ELSE "propagate"

\* the except clauses without the catch-all 'except Exception'
ExceptClause_NoCatchAll(t) ==
    IF IsSubclass(t, "BaseAPIError") THEN "BaseAPIError"
    ELSE IF IsSubclass(t, "EmptyResponseError") THEN "EmptyResponseError"
    ELSE "propagate"

\* the except clause of main's try statement (lines 150-163) that handles
\* an exception of class t: the first clause, in source order, whose class
\* t is a subclass of; "propagate" if there is none
ExceptClause(t) ==
    IF IsSubclass(t, "BaseAPIError") THEN "BaseAPIError"
    ELSE IF IsSubclass(t, "EmptyResponseError") THEN "EmptyResponseError"
    ELSE IF IsSubclass(t, "Exception") THEN "Exception"
    ELSE "propagate"

\* "t is a fragment of the text s"
Contains(s, t) == \E i \in 1..Len(s) : s[i] = t

(***************************************************************************)
(* State.                                                                  *)
(***************************************************************************)
VARIABLES
    PRACTICUM_TOKEN,   \* module globals read from the environment
    TELEGRAM_TOKEN,
    TELEGRAM_CHAT_ID,
    pc,                \* position of main()
    exit_code,         \* argument of exit(), or NoExit
    is_api_error,      \* main's error-streak flag
    http,              \* what requests.get ended in, this iteration
    response,          \* main's local 'response'
    error,             \* the exception raised in the try body, this iteration
    message,           \* main's local 'message'
    sent,              \* the send_message calls of this iteration, in order
    outcome,           \* how this iteration ended
    sleeps,            \* time.sleep calls since the latest fetch
    flag0,             \* is_api_error when this iteration began
    prev,              \* summary of the previous iteration
    decisive,          \* outcome of the latest finished OK or API iteration
    network_used,      \* has requests.get or bot.send_message been called
    clock,             \* the reading of int(time.time())
    ticks,             \* sleeps the clock has been advanced for
    timestamp,         \* main's local 'timestamp'
    watermark,         \* 'current_date' of the latest fetched response that has one
    call               \* a single function application (SpecPure)

vars ==
    <<PRACTICUM_TOKEN, TELEGRAM_TOKEN, TELEGRAM_CHAT_ID, pc, exit_code,
      is_api_error, http, response, error, message, sent, outcome, sleeps,
      flag0, prev, decisive, network_used, clock, ticks, timestamp,
      watermark, call>>

mainVars ==
    <<PRACTICUM_TOKEN, TELEGRAM_TOKEN, TELEGRAM_CHAT_ID, pc, exit_code,
      is_api_error, http, response, error, message, sent, outcome, sleeps,
      flag0, prev, decisive, network_used, clock, ticks, timestamp,
      watermark>>

\* the clock, and what the loop reads from it and from the API's answers
clockVars == <<clock, ticks, timestamp, watermark>>

tokens == <<PRACTICUM_TOKEN, TELEGRAM_TOKEN, TELEGRAM_CHAT_ID>>

NoExit == [exited |-> FALSE]
NoHttp == [kind |-> "none"]
Unbound == [unbound |-> TRUE]
NoError == Return("None")
NoIteration == [outcome |-> "none"]
Idle == [fn |-> "none"]

\* The locals of the loop body are of no use once the iteration is over:
\* every read of response, message and error follows an assignment made in
\* the same iteration, so a value left by an earlier iteration is never
\* seen.  They are unbound again when the iteration ends.
IterationEnd ==
    /\ http' = NoHttp
    /\ response' = Unbound
    /\ error' = NoError
    /\ message' = Unbound
    /\ sent' = <<>>
    /\ outcome' = "none"
    /\ timestamp' = Unbound

\* summary of the iteration that has just finished
Entry ==
    [outcome   |-> outcome,
     calls     |-> Len(sent),
     delivered |-> Cardinality({i \in 1..Len(sent) : sent[i].delivered}),
     flag      |-> flag0]

MainInit ==
    /\ PRACTICUM_TOKEN \in EnvValues
    /\ TELEGRAM_TOKEN \in EnvValues
    /\ TELEGRAM_CHAT_ID \in EnvValues
    /\ pc = "main"
    /\ exit_code = NoExit
    /\ is_api_error = FALSE
    /\ http = NoHttp
    /\ response = Unbound
    /\ error = NoError
    /\ message = Unbound
    /\ sent = <<>>
    /\ outcome = "none"
    /\ sleeps = 0
    /\ flag0 = FALSE
    /\ prev = NoIteration
    /\ decisive = "none"
    /\ network_used = FALSE
    /\ clock \in CurrentDates
    /\ ticks = 0
    /\ timestamp = Unbound
    /\ watermark = Unbound

Init ==
    /\ MainInit
    /\ call = Idle

(***************************************************************************)
(* main(), one action per step.                                            *)
(***************************************************************************)
\* lines 130-138: the token check, exit(1) or the start of the loop
CheckTokens ==
    /\ pc = "main"
    /\ LET res == check_tokens(PRACTICUM_TOKEN, TELEGRAM_TOKEN, TELEGRAM_CHAT_ID)
       IN  IF res.raised
           THEN /\ exit_code' = [exited |-> TRUE, code |-> 1]
                /\ pc' = "exit"
                /\ is_api_error' = is_api_error
           ELSE /\ exit_code' = exit_code
                /\ pc' = "loop"
                /\ is_api_error' = FALSE
    /\ UNCHANGED <<tokens, http, response, error, message, sent, outcome,
                   sleeps, flag0, prev, decisive, network_used, call, clockVars>>

\* lines 141-143: a new iteration begins with the reading of the clock and
\* the fetch
GetApiAnswer ==
    /\ pc = "loop"
    /\ timestamp' = [value |-> clock]
    /\ \E h \in HttpResults :
          LET res == get_api_answer(h)
          IN  /\ http' = h
              /\ IF res.raised
                 THEN /\ error' = res
                      /\ response' = Unbound
                      /\ pc' = "except"
                 ELSE /\ error' = NoError
                      /\ response' = res.value
                      /\ pc' = "check_response"
    /\ outcome' = "running"
    /\ flag0' = is_api_error
    /\ sleeps' = 0
    /\ network_used' = TRUE
    /\ UNCHANGED <<tokens, exit_code, is_api_error, message, sent, prev,
                   decisive, clock, ticks, watermark, call>>

\* line 144
CheckResponse ==
    /\ pc = "check_response"
    /\ LET res == check_response(response)
       IN  IF res.raised
           THEN /\ error' = res
                /\ pc' = "except"
           ELSE /\ error' = error
                /\ pc' = "parse"
    /\ UNCHANGED <<tokens, exit_code, is_api_error, http, response, message,
                   sent, outcome, sleeps, flag0, prev, decisive, network_used,
                   call, clockVars>>

\* the success path without 'is_api_error = False'
ParseStatuses_FlagNotCleared ==
    /\ pc = "parse"
    /\ LET res == JoinVerdicts(response.homeworks.items)
       IN  IF res.raised
           THEN /\ error' = res
                /\ pc' = "except"
                /\ UNCHANGED message
           ELSE /\ message' = res.value
                /\ pc' = "send_try"
                /\ error' = error
    /\ UNCHANGED <<tokens, exit_code, is_api_error, http, response, sent,
                   outcome, sleeps, flag0, prev, decisive, network_used, call,
                   clockVars>>

\* lines 145-147: the message is built, then the flag is cleared
ParseStatuses ==
    /\ pc = "parse"
    /\ LET res == JoinVerdicts(response.homeworks.items)
       IN  IF res.raised
           THEN /\ error' = res
                /\ pc' = "except"
                /\ UNCHANGED <<message, is_api_error>>
           ELSE /\ message' = res.value
                /\ is_api_error' = FALSE
                /\ pc' = "send_try"
                /\ error' = error
    /\ UNCHANGED <<tokens, exit_code, http, response, sent, outcome, sleeps,
                   flag0, prev, decisive, network_used, call, clockVars>>

\* send_message calls with the flag made to follow the delivery: an error
\* notification that was not delivered leaves the flag clear, to be tried
\* again
SendMessage_RetryUndelivered ==
    /\ pc \in {"send_try", "send_except"}
    /\ \E b \in BotResults :
          LET res == send_message(b)
          IN  /\ sent' = Append(sent, [text |-> message, delivered |-> ~b.raised])
              /\ is_api_error' = IF pc = "send_except" /\ outcome = "API" /\ b.raised
                                 THEN FALSE
                                 ELSE is_api_error
              /\ IF res.raised
                 THEN IF pc = "send_try"
                      THEN /\ error' = res
                           /\ pc' = "except"
                           /\ outcome' = outcome
                      ELSE /\ error' = res
                           /\ pc' = "finally"
                           /\ outcome' = "ESCAPED"
                 ELSE /\ error' = error
                      /\ pc' = "finally"
                      /\ outcome' = IF pc = "send_try" THEN "OK" ELSE outcome
    /\ network_used' = TRUE
    /\ UNCHANGED <<tokens, exit_code, http, response, message, sleeps, flag0,
                   prev, decisive, call, clockVars>>

\* send_message calls with the flag made to follow the delivery: the flag
\* is cleared only when the verdicts were delivered
SendMessage_FlagFollowsDelivery ==
    /\ pc \in {"send_try", "send_except"}
    /\ \E b \in BotResults :
          LET res == send_message(b)
          IN  /\ sent' = Append(sent, [text |-> message, delivered |-> ~b.raised])
              /\ is_api_error' = IF pc = "send_try" /\ b.raised
                                 THEN flag0
                                 ELSE is_api_error
              /\ IF res.raised
                 THEN IF pc = "send_try"
                      THEN /\ error' = res
                           /\ pc' = "except"
                           /\ outcome' = outcome
                      ELSE /\ error' = res
                           /\ pc' = "finally"
                           /\ outcome' = "ESCAPED"
                 ELSE /\ error' = error
                      /\ pc' = "finally"
                      /\ outcome' = IF pc = "send_try" THEN "OK" ELSE outcome
    /\ network_used' = TRUE
    /\ UNCHANGED <<tokens, exit_code, http, response, message, sleeps, flag0,
                   prev, decisive, call, clockVars>>

\* lines 148, 155 and 163: send_message(bot, message).  An exception leaving
\* send_message in the try body is dispatched to the except clauses; one
\* leaving it inside an except clause leaves the loop after the finally.
SendMessage ==
    /\ pc \in {"send_try", "send_except"}
    /\ \E b \in BotResults :
          LET res == send_message(b)
          IN  /\ sent' = Append(sent, [text |-> message, delivered |-> ~b.raised])
              /\ IF res.raised
                 THEN IF pc = "send_try"
                      THEN /\ error' = res
                           /\ pc' = "except"
                           /\ outcome' = outcome
                      ELSE /\ error' = res
                           /\ pc' = "finally"
                           /\ outcome' = "ESCAPED"
                 ELSE /\ error' = error
                      /\ pc' = "finally"
                      /\ outcome' = IF pc = "send_try" THEN "OK" ELSE outcome
    /\ network_used' = TRUE
    /\ UNCHANGED <<tokens, exit_code, is_api_error, http, response, message,
                   sleeps, flag0, prev, decisive, call, clockVars>>

\* the except clauses with the 'if not is_api_error' test left out
Except_AlwaysNotify ==
    /\ pc = "except"
    /\ LET clause == ExceptClause(error.type)
       IN  CASE clause = "BaseAPIError" ->
                  /\ outcome' = "API"
                  /\ is_api_error' = TRUE
                  /\ message' = FailureText(error.text)
                  /\ pc' = "send_except"
            [] clause = "EmptyResponseError" ->
                  /\ outcome' = "EMPTY"
                  /\ pc' = "finally"
                  /\ UNCHANGED <<is_api_error, message>>
            [] clause = "Exception" ->
                  /\ outcome' = "OTHER"
                  /\ message' = FailureText(error.text)
                  /\ pc' = "send_except"
                  /\ UNCHANGED is_api_error
            [] OTHER ->
                  /\ outcome' = "ESCAPED"
                  /\ pc' = "finally"
                  /\ UNCHANGED <<is_api_error, message>>
    /\ UNCHANGED <<tokens, exit_code, http, response, error, sent, sleeps,
                   flag0, prev, decisive, network_used, call, clockVars>>

\* the except clauses with the sleep at the end of the clauses that notify,
\* not in a finally: the empty-result clause goes round without it
Except_SleepNotInFinally ==
    /\ pc = "except"
    /\ LET clause == ExceptClause(error.type)
       IN  CASE clause = "BaseAPIError" ->
                  /\ outcome' = "API"
                  /\ IF ~is_api_error
                     THEN /\ is_api_error' = TRUE
                          /\ message' = FailureText(error.text)
                          /\ pc' = "send_except"
                     ELSE /\ pc' = "finally"
                          /\ UNCHANGED <<is_api_error, message>>
            [] clause = "EmptyResponseError" ->
                  /\ outcome' = "EMPTY"
                  /\ pc' = "loop"
                  /\ UNCHANGED <<is_api_error, message>>
            [] clause = "Exception" ->
                  /\ outcome' = "OTHER"
                  /\ message' = FailureText(error.text)
                  /\ pc' = "send_except"
                  /\ UNCHANGED is_api_error
            [] OTHER ->
                  /\ outcome' = "ESCAPED"
                  /\ pc' = "finally"
                  /\ UNCHANGED <<is_api_error, message>>
    /\ UNCHANGED <<tokens, exit_code, http, response, error, sent, sleeps,
                   flag0, prev, decisive, network_used, call, clockVars>>

\* the except clauses with the unclassified failures notified like the API
\* ones, only when the flag is clear
Except_SuppressUnclassified ==
    /\ pc = "except"
    /\ LET clause == ExceptClause(error.type)
       IN  CASE clause = "BaseAPIError" ->
                  /\ outcome' = "API"
                  /\ IF ~is_api_error
                     THEN /\ is_api_error' = TRUE
                          /\ message' = FailureText(error.text)
                          /\ pc' = "send_except"
                     ELSE /\ pc' = "finally"
                          /\ UNCHANGED <<is_api_error, message>>
            [] clause = "EmptyResponseError" ->
                  /\ outcome' = "EMPTY"
                  /\ pc' = "finally"
                  /\ UNCHANGED <<is_api_error, message>>
            [] clause = "Exception" ->
                  /\ outcome' = "OTHER"
                  /\ UNCHANGED is_api_error
                  /\ IF ~is_api_error
                     THEN /\ message' = FailureText(error.text)
                          /\ pc' = "send_except"
                     ELSE /\ pc' = "finally"
                          /\ UNCHANGED message
            [] OTHER ->
                  /\ outcome' = "ESCAPED"
                  /\ pc' = "finally"
                  /\ UNCHANGED <<is_api_error, message>>
    /\ UNCHANGED <<tokens, exit_code, http, response, error, sent, sleeps,
                   flag0, prev, decisive, network_used, call, clockVars>>

\* the except clauses with the flag set by the unclassified failures too
Except_UnclassifiedSetsFlag ==
    /\ pc = "except"
    /\ LET clause == ExceptClause(error.type)
       IN  CASE clause = "BaseAPIError" ->
                  /\ outcome' = "API"
                  /\ IF ~is_api_error
                     THEN /\ is_api_error' = TRUE
                          /\ message' = FailureText(error.text)
                          /\ pc' = "send_except"
                     ELSE /\ pc' = "finally"
                          /\ UNCHANGED <<is_api_error, message>>
            [] clause = "EmptyResponseError" ->
                  /\ outcome' = "EMPTY"
                  /\ pc' = "finally"
                  /\ UNCHANGED <<is_api_error, message>>
            [] clause = "Exception" ->
                  /\ outcome' = "OTHER"
                  /\ is_api_error' = TRUE
                  /\ message' = FailureText(error.text)
                  /\ pc' = "send_except"
            [] OTHER ->
                  /\ outcome' = "ESCAPED"
                  /\ pc' = "finally"
                  /\ UNCHANGED <<is_api_error, message>>
    /\ UNCHANGED <<tokens, exit_code, http, response, error, sent, sleeps,
                   flag0, prev, decisive, network_used, call, clockVars>>

\* lines 150-163: the except clauses
Except ==
    /\ pc = "except"
    /\ LET clause == ExceptClause(error.type)
       IN  CASE clause = "BaseAPIError" ->
                  /\ outcome' = "API"
                  /\ IF ~is_api_error
                     THEN /\ is_api_error' = TRUE
                          /\ message' = FailureText(error.text)
                          /\ pc' = "send_except"
                     ELSE /\ pc' = "finally"
                          /\ UNCHANGED <<is_api_error, message>>
            [] clause = "EmptyResponseError" ->
                  /\ outcome' = "EMPTY"
                  /\ pc' = "finally"
                  /\ UNCHANGED <<is_api_error, message>>
            [] clause = "Exception" ->
                  /\ outcome' = "OTHER"
                  /\ message' = FailureText(error.text)
                  /\ pc' = "send_except"
                  /\ UNCHANGED is_api_error
            [] OTHER ->
                  /\ outcome' = "ESCAPED"
                  /\ pc' = "finally"
                  /\ UNCHANGED <<is_api_error, message>>
    /\ UNCHANGED <<tokens, exit_code, http, response, error, sent, sleeps,
                   flag0, prev, decisive, network_used, call, clockVars>>

\* lines 165-167: the finally clause ends the iteration; an exception no
\* clause handled leaves the loop after the sleep.  The sleep moves the
\* clock on by ten minutes, for as long as the clock is followed.
Sleep ==
    /\ pc = "finally"
    /\ sleeps' = sleeps + 1
    /\ IF ticks < MaxTicks
       THEN /\ clock' = clock + ten_minutes_in_seconds
            /\ ticks' = ticks + 1
       ELSE UNCHANGED <<clock, ticks>>
    /\ watermark' = IF response # Unbound /\ "current_date" \in DOMAIN response
                    THEN [value |-> response.current_date]
                    ELSE watermark
    /\ pc' = IF outcome = "ESCAPED" THEN "terminated" ELSE "loop"
    /\ prev' = Entry
    /\ decisive' = IF outcome \in {"OK", "API"} THEN outcome ELSE decisive
    /\ IterationEnd
    /\ UNCHANGED <<tokens, exit_code, is_api_error, flag0, network_used, call>>

Next ==
    \/ CheckTokens
    \/ GetApiAnswer
    \/ CheckResponse
    \/ ParseStatuses
    \/ SendMessage
    \/ Except
    \/ Sleep

Spec == Init /\ [][Next]_vars

\* the loop is the only thread and nothing in it blocks for ever: a step
\* that can be taken is taken
FairSpec == Spec /\ WF_vars(Next)

(***************************************************************************)
(* Single applications of check_response and parse_status, over every      *)
(* response and every homework record of the input sets.                   *)
(***************************************************************************)
Calls ==
    {[fn |-> "check_response", arg |-> r, done |-> FALSE] : r \in Responses}
    \cup {[fn |-> "parse_status", arg |-> hw, done |-> FALSE] : hw \in HomeworkRecords}

InitPure ==
    /\ MainInit
    /\ call \in Calls

ApplyCheckResponse ==
    /\ call.fn = "check_response"
    /\ ~call.done
    /\ call' = [fn |-> call.fn, arg |-> call.arg, done |-> TRUE,
                result |-> check_response(call.arg)]
    /\ UNCHANGED mainVars

ApplyParseStatus ==
    /\ call.fn = "parse_status"
    /\ ~call.done
    /\ call' = [fn |-> call.fn, arg |-> call.arg, done |-> TRUE,
                result |-> parse_status(call.arg)]
    /\ UNCHANGED mainVars

NextPure ==
    \/ ApplyCheckResponse
    \/ ApplyParseStatus

SpecPure == InitPure /\ [][NextPure]_vars

(***************************************************************************)
(* Properties.  An iteration's outcome and its send_message calls are all  *)
(* known at pc = "finally", when only the sleep is left of it.             *)
(***************************************************************************)

\* C1: in a run of consecutive iterations that each end in an API-classified
\* failure and that starts with the flag clear, send_message is called
\* exactly once in the first iteration and not at all in the later ones;
\* and the first API-classified failure after a successful iteration calls
\* it exactly once again.
C1_OneNotificationPerStreak ==
    (pc = "finally" /\ outcome = "API") =>
        /\ (prev.outcome # "API" /\ ~flag0) => Len(sent) = 1
        /\ prev.outcome = "API" => Len(sent) = 0
        /\ decisive = "OK" => Len(sent) = 1

\* a second failure of a streak that began with the flag clear
C1_Witness ==
    /\ pc = "finally"
    /\ outcome = "API"
    /\ prev = [outcome |-> "API", calls |-> 1, delivered |-> 1, flag |-> FALSE]
    /\ Len(sent) = 0

\* C2: every iteration, whatever its outcome, sleeps exactly once after its
\* steps and before the next fetch: no step of an iteration follows a sleep
\* of that iteration, and a fetch begins only after exactly one sleep since
\* the fetch before it.
C2_OneSleepBetweenFetches ==
    /\ pc \in {"check_response", "parse", "send_try", "except", "send_except",
               "finally"} => sleeps = 0
    /\ (pc = "loop" /\ network_used) => sleeps = 1

\* back at the fetch after an iteration that ended in an unclassified failure
C2_Witness ==
    /\ pc = "loop"
    /\ prev.outcome = "OTHER"
    /\ sleeps = 1

\* C3: with any one of the three configuration values missing or empty,
\* main goes nowhere but to exit(1), and neither requests.get nor
\* bot.send_message is ever called; with all three non-empty, exit is never
\* reached.
C3_TokenGate ==
    LET all == Truthy(PRACTICUM_TOKEN) /\ Truthy(TELEGRAM_TOKEN)
               /\ Truthy(TELEGRAM_CHAT_ID)
    IN  /\ ~all => /\ pc \in {"main", "exit"}
                   /\ ~network_used
        /\ pc = "exit" => exit_code = [exited |-> TRUE, code |-> 1]
        /\ all => /\ pc # "exit"
                  /\ exit_code = NoExit

\* exit(1) with only the chat identifier empty
C3_Witness ==
    /\ pc = "exit"
    /\ Truthy(PRACTICUM_TOKEN)
    /\ Truthy(TELEGRAM_TOKEN)
    /\ TELEGRAM_CHAT_ID = [set |-> TRUE, str |-> ""]
    /\ exit_code = [exited |-> TRUE, code |-> 1]

\* C4: check_response raises ResponseTypeError when 'homeworks' is missing,
\* when 'current_date' is missing, or when 'homeworks' is not a list, an
\* empty list with 'current_date' missing included; it raises
\* EmptyResponseError only when both keys are there and 'homeworks' is an
\* empty list.
C4_CheckResponseErrors ==
    (call.fn = "check_response" /\ call.done) =>
        LET r == call.arg
            res == call.result
        IN  /\ ( \/ "homeworks" \notin DOMAIN r
                 \/ "current_date" \notin DOMAIN r
                 \/ r.homeworks.type # "list" )
               => (res.raised /\ res.type = "ResponseTypeError")
            /\ (res.raised /\ res.type = "EmptyResponseError")
               => /\ "homeworks" \in DOMAIN r
                  /\ "current_date" \in DOMAIN r
                  /\ r.homeworks.type = "list"
                  /\ r.homeworks.items = <<>>

\* an empty list without 'current_date' is a shape error
C4_Witness ==
    /\ call.fn = "check_response"
    /\ call.done
    /\ call.arg = [homeworks |-> [type |-> "list", items |-> <<>>]]
    /\ call.result.raised
    /\ call.result.type = "ResponseTypeError"

\* C5: parse_status returns a text with the homework's name and the verdict
\* phrase of its status when the record has both keys and the status is a
\* key of HOMEWORK_VERDICTS; otherwise it raises ResponseTypeError and
\* returns nothing.
C5_ParseStatus ==
    (call.fn = "parse_status" /\ call.done) =>
        LET hw == call.arg
            res == call.result
        IN  IF /\ "homework_name" \in DOMAIN hw
               /\ "status" \in DOMAIN hw
               /\ hw.status \in DOMAIN HOMEWORK_VERDICTS
            THEN /\ ~res.raised
                 /\ Contains(res.value, hw.homework_name)
                 /\ Contains(res.value, HOMEWORK_VERDICTS[hw.status])
            ELSE /\ res.raised
                 /\ res.type = "ResponseTypeError"
                 /\ "value" \notin DOMAIN res

\* a rejected homework is formatted
C5_Witness ==
    /\ call.fn = "parse_status"
    /\ call.done
    /\ call.arg = [homework_name |-> "hw2", status |-> "rejected"]
    /\ ~call.result.raised
    /\ Contains(call.result.value, "hw2")

\* C6: an iteration whose fetched response has both keys and an empty
\* 'homeworks' list makes no send_message call and leaves the flag as it was
\* when the iteration began.
C6_EmptyResponseIsSilent ==
    ( /\ response # Unbound
      /\ "homeworks" \in DOMAIN response
      /\ "current_date" \in DOMAIN response
      /\ response.homeworks.type = "list"
      /\ response.homeworks.items = <<>> )
    => /\ sent = <<>>
       /\ is_api_error = flag0
       /\ pc \in {"check_response", "except", "finally"}

\* an empty response in the middle of an error streak: the flag stays set
C6_Witness ==
    /\ pc = "finally"
    /\ response = [homeworks |-> [type |-> "list", items |-> <<>>],
                   current_date |-> 1000]
    /\ outcome = "EMPTY"
    /\ flag0
    /\ is_api_error
    /\ sent = <<>>

\* C7: an iteration whose fetch returns a response with both keys and a
\* non-empty list of records that each have both keys and a status of
\* HOMEWORK_VERDICTS ends with the flag false and exactly one send_message
\* call, whose text contains every record's name and verdict phrase.
C7_SuccessNotifiesAllVerdicts ==
    ( /\ pc = "finally"
      /\ response # Unbound
      /\ "homeworks" \in DOMAIN response
      /\ "current_date" \in DOMAIN response
      /\ response.homeworks.type = "list"
      /\ response.homeworks.items # <<>>
      /\ \A i \in 1..Len(response.homeworks.items) :
            /\ "homework_name" \in DOMAIN response.homeworks.items[i]
            /\ "status" \in DOMAIN response.homeworks.items[i]
            /\ response.homeworks.items[i].status \in DOMAIN HOMEWORK_VERDICTS )
    => /\ ~is_api_error
       /\ Len(sent) = 1
       /\ \A i \in 1..Len(response.homeworks.items) :
             /\ Contains(sent[1].text, response.homeworks.items[i].homework_name)
             /\ Contains(sent[1].text,
                         HOMEWORK_VERDICTS[response.homeworks.items[i].status])

\* two verdicts arrive during an error streak
C7_Witness ==
    /\ pc = "finally"
    /\ response = [homeworks |->
                     [type |-> "list",
                      items |-> <<[homework_name |-> "hw1", status |-> "approved"],
                                  [homework_name |-> "hw2", status |-> "rejected"]>>],
                   current_date |-> 1000]
    /\ flag0
    /\ ~is_api_error
    /\ Len(sent) = 1

\* C8: get_api_answer reports a transport failure of the GET and a non-200
\* status alike as APIRequestError, so the iteration is an API-classified
\* failure, notified only when the flag was clear.
C8_TransportFailureIsRequestError ==
    ( /\ pc = "finally"
      /\ \/ http.kind = "RequestException"
         \/ (http.kind = "response" /\ http.status_code # HTTP_OK) )
    => /\ error.raised
       /\ error.type = "APIRequestError"
       /\ outcome = "API"
       /\ Len(sent) = (IF flag0 THEN 0 ELSE 1)

\* C9: a 200 answer whose body is not JSON makes the fetch fail with
\* ResponseTypeError, so the iteration is an API-classified failure,
\* notified only when the flag was clear, with the flag set after it.
C9_BadJsonIsShapeError ==
    ( /\ pc = "finally"
      /\ http.kind = "response"
      /\ http.status_code = HTTP_OK
      /\ ~http.json )
    => /\ error.raised
       /\ error.type = "ResponseTypeError"
       /\ outcome = "API"
       /\ Len(sent) = (IF flag0 THEN 0 ELSE 1)
       /\ is_api_error

\* C10: once the token check has passed the loop never stops: no failure of
\* a fetch, validation, formatting or notification step leaves the loop
\* body, and after every iteration another one begins.
C10_LoopNeverStops ==
    /\ [](outcome # "ESCAPED" /\ pc # "terminated")
    /\ (pc = "finally") ~> (outcome = "running")

\* an iteration whose fetch and whose notification both failed is over
C10_Witness ==
    /\ pc = "loop"
    /\ prev = [outcome |-> "OTHER", calls |-> 1, delivered |-> 0, flag |-> TRUE]

\* C11: every iteration that ends in an unclassified failure calls
\* send_message exactly once, whatever the flag and whatever came before.
C11_UnclassifiedAlwaysNotified ==
    (pc = "finally" /\ outcome = "OTHER") => Len(sent) = 1

\* a second unclassified failure in a row, with the flag set
C11_Witness ==
    /\ pc = "finally"
    /\ outcome = "OTHER"
    /\ flag0
    /\ prev.outcome = "OTHER"
    /\ prev.calls = 1
    /\ Len(sent) = 1

\* C12: a failure of bot.send_message is swallowed by send_message: the
\* iteration is then at its sleep, with that one send_message call and no
\* other, no exception has left the loop body, and on the success path no
\* exception has reached the except clauses.
C12_DeliveryFailureSwallowed ==
    (\E i \in 1..Len(sent) : ~sent[i].delivered) =>
        /\ pc = "finally"
        /\ Len(sent) = 1
        /\ outcome \in {"OK", "API", "OTHER"}
        /\ sent[1].text = message
        /\ (~error.raised) <=> (outcome = "OK")

\* the verdicts could not be delivered and the iteration is a success
C12_Witness ==
    /\ pc = "finally"
    /\ outcome = "OK"
    /\ Len(sent) = 1
    /\ ~sent[1].delivered
    /\ ~error.raised

\* C13, as stated: an iteration that ends in an API-classified failure while
\* the iteration just before it did not (or there was none) calls
\* send_message.
C13_NotifiedAfterAnyOtherOutcome ==
    (pc = "finally" /\ outcome = "API" /\ prev.outcome # "API") => Len(sent) >= 1

\* C13, amended: an iteration that ends in an API-classified failure calls
\* send_message exactly once when no iteration has ended in an
\* API-classified failure since the latest successful one (or since the
\* start), and not at all otherwise: an empty-result or unclassified
\* iteration inside a streak does not end the streak.
C13_NotifiedAtFirstFailureSinceSuccess ==
    (pc = "finally" /\ outcome = "API") =>
        /\ decisive # "API" => Len(sent) = 1
        /\ decisive = "API" => Len(sent) = 0

\* the first failure after a success, an empty-result iteration in between
C13_Witness ==
    /\ pc = "finally"
    /\ outcome = "API"
    /\ decisive = "OK"
    /\ prev.outcome = "EMPTY"
    /\ Len(sent) = 1

\* C14: the timestamp passed to get_api_answer after a fetch that returned
\* a 'current_date' is that 'current_date'.
C14_TimestampIsWatermark ==
    (timestamp # Unbound /\ watermark # Unbound) =>
        timestamp.value = watermark.value

\* C15: between iterations the flag is true exactly when some iteration has
\* ended in success or in an API-classified failure and the latest of those
\* ended in an API-classified failure; an empty-result or unclassified
\* iteration leaves the flag as it found it.
C15_FlagIsLatestDecisiveOutcome ==
    /\ pc = "loop" => (is_api_error <=> decisive = "API")
    /\ (pc = "finally" /\ outcome \in {"EMPTY", "OTHER"}) => is_api_error = flag0

\* the flag is still set after an unclassified failure inside a streak
C15_Witness ==
    /\ pc = "loop"
    /\ is_api_error
    /\ decisive = "API"
    /\ prev.outcome = "OTHER"
    /\ prev.flag

\* C16: the first API-classified failure of a streak sets the flag whether
\* its notification was delivered or not, and the API-classified failure
\* that follows one whose notification was not delivered makes no
\* send_message call.
C16_FlagSetWithoutDelivery ==
    (pc = "finally" /\ outcome = "API") =>
        /\ is_api_error
        /\ (prev.outcome = "API" /\ prev.delivered = 0) => Len(sent) = 0

\* two failures of a streak, and nothing delivered
C16_Witness ==
    /\ pc = "finally"
    /\ outcome = "API"
    /\ prev = [outcome |-> "API", calls |-> 1, delivered |-> 0, flag |-> FALSE]
    /\ sent = <<>>
    /\ is_api_error

\* C17: when the response passes check_response and a record after the
\* first has a key missing or an unknown status, the iteration is an
\* API-classified failure: the flag is set at its end, there is one
\* send_message call if the flag was clear and none if it was set, and no
\* text sent carries a verdict phrase.
C17_VerdictsAllOrNothing ==
    ( /\ pc = "finally"
      /\ response # Unbound
      /\ "homeworks" \in DOMAIN response
      /\ "current_date" \in DOMAIN response
      /\ response.homeworks.type = "list"
      /\ Len(response.homeworks.items) >= 2
      /\ "homework_name" \in DOMAIN response.homeworks.items[1]
      /\ "status" \in DOMAIN response.homeworks.items[1]
      /\ response.homeworks.items[1].status \in DOMAIN HOMEWORK_VERDICTS
      /\ \E i \in 2..Len(response.homeworks.items) :
            \/ "homework_name" \notin DOMAIN response.homeworks.items[i]
            \/ "status" \notin DOMAIN response.homeworks.items[i]
            \/ response.homeworks.items[i].status \notin DOMAIN HOMEWORK_VERDICTS )
    => /\ outcome = "API"
       /\ is_api_error
       /\ Len(sent) = (IF flag0 THEN 0 ELSE 1)
       /\ \A k \in 1..Len(sent) :
             /\ sent[k].text = FailureText(WrongType)
             /\ \A st \in DOMAIN HOMEWORK_VERDICTS :
                   ~Contains(sent[k].text, HOMEWORK_VERDICTS[st])

\* an approved homework followed by one of unknown status
C17_Witness ==
    /\ pc = "finally"
    /\ response = [homeworks |->
                     [type |-> "list",
                      items |-> <<[homework_name |-> "hw1", status |-> "approved"],
                                  [homework_name |-> "hw2", status |-> "unknown"]>>],
                   current_date |-> 1000]
    /\ ~flag0
    /\ outcome = "API"
    /\ Len(sent) = 1

\* C18: on the success path the flag is clear before send_message is called
\* and stays clear whether the verdicts were delivered or not, so the
\* API-classified failure that follows a success whose verdicts were not
\* delivered is notified.
C18_FlagClearedBeforeDelivery ==
    /\ pc = "send_try" => ~is_api_error
    /\ (pc = "finally" /\ outcome = "OK") => ~is_api_error
    /\ ( /\ pc = "finally"
         /\ outcome = "API"
         /\ prev.outcome = "OK"
         /\ prev.delivered = 0 ) => Len(sent) = 1

\* a failure right after a success that ended a streak undelivered
C18_Witness ==
    /\ pc = "finally"
    /\ outcome = "API"
    /\ prev = [outcome |-> "OK", calls |-> 1, delivered |-> 0, flag |-> TRUE]
    /\ Len(sent) = 1

====
